--------------------------- MODULE Spec2Model ---------------------------
(***************************************************************************)
(* The notes service of src/src/controller/route_handler.rs: five HTTP     *)
(* handlers over one "notes" table.  list, get, create and delete make one *)
(* store call each and are one atomic step; update makes a fetch and then  *)
(* a write, with other requests' store calls free to run in between.       *)
(* The created_at / updated_at columns are copied through by every handler *)
(* and never inspected; they are left out of the rows.                     *)
(***************************************************************************)
EXTENDS Integers, Sequences, FiniteSets, Bags, TLC

VARIABLES store, nextId, tasks, last, nreq

vars == <<store, nextId, tasks, last, nreq>>

\* ------------------------------------------------------------- bounds
MaxIds == 2
MaxTasks == 2
MaxReqs == 3

\* ------------------------------------------------------------- values
\* Option<T>: None is the empty tuple, Some(v) the one-element tuple.
None == << >>
Some(v) == <<v>>
Option(S) == {None} \cup {Some(v) : v \in S}

Ids == 1..MaxIds
Titles == {"t1", "t2"}
\* Request bodies: a create writes a content of CreateContents, an update
\* one of UpdateContents, so that a content update is always a change.
CreateContents == {"c1"}
UpdateContents == {"c2"}
Categories == {"k1"}
Flags == {TRUE}
Cols == {"title", "content", "category", "published"}

CreateNoteSchema ==
    [title : Titles, content : CreateContents,
     category : Option(Categories), published : Option(Flags)]

UpdateNoteSchema ==
    [title : Option(Titles), content : Option(UpdateContents),
     category : Option(Categories), published : Option(Flags)]

FilterOptions == [page : Option({1}), limit : Option({1})]

\* Option<Query<FilterOptions>>.unwrap_or_default()
OptsOrDefault(opts) ==
    IF opts = None THEN [page |-> None, limit |-> None] ELSE opts[1]

NoteResponse(id, n) ==
    [id |-> id, title |-> n.title, content |-> n.content,
     category |-> n.category, published |-> n.published]

\* ------------------------------------------------------------- store
\* A store call either runs against the table or fails with a DbErr.  The
\* error text is kept as the fragments the handlers look at.
DuplicateKeyText == "duplicate key value violates unique constraint"
UniqueErr == <<"Query Error: error returned from database:", DuplicateKeyText, "notes_title_key">>
ConnErr == <<"Connection Error:", "connection closed">>
NotUpdatedErr == <<"None of the database rows are affected">>
EmptyUpdateErr == <<"Query Error: error returned from database:", "syntax error">>

Contains(text, needle) == \E i \in DOMAIN text : text[i] = needle

Row(id) == CHOOSE n \in store : n.id = id
Stored(id) == \E n \in store : n.id = id

\* The unique index on notes.title: another row already holds the title.
TitleTaken(title, id) == \E n \in store : n.title = title /\ n.id # id

\* Notes::find_by_id(id).one(&db) on a reachable store
FindById(id) == IF Stored(id) THEN Some(Row(id)) ELSE None

\* The store's default for a column the INSERT leaves out.
PublishedDefaults == {None}

\* ------------------------------------------------------------- sea-orm
\* ActiveValue: Set(v) is written by the next save, Unchanged(v) is not.
Set(v) == [tag |-> "Set", v |-> v]
Unchanged(v) == [tag |-> "Unchanged", v |-> v]

\* impl From<Model> for ActiveModel: every column Unchanged(value)
IntoActiveModel(m) ==
    [id |-> Unchanged(m.id), title |-> Unchanged(m.title),
     content |-> Unchanged(m.content), category |-> Unchanged(m.category),
     published |-> Unchanged(m.published)]

\* Patch assigning published without the `if let`.
PatchPublishedAlways(note, data) ==
    [id |-> note.id,
     title |-> IF data.title # None THEN Set(data.title[1]) ELSE note.title,
     content |-> IF data.content # None THEN Set(data.content[1]) ELSE note.content,
     category |-> IF data.category # None THEN Set(Some(data.category[1])) ELSE note.category,
     published |-> Set(data.published)]

\* The four `if let Some(..) = data.x { note.x = Set(..) }` of update_handler
Patch(note, data) ==
    [id |-> note.id,
     title |-> IF data.title # None THEN Set(data.title[1]) ELSE note.title,
     content |-> IF data.content # None THEN Set(data.content[1]) ELSE note.content,
     category |-> IF data.category # None THEN Set(Some(data.category[1])) ELSE note.category,
     published |-> IF data.published # None THEN Set(Some(data.published[1])) ELSE note.published]

\* The columns an UPDATE built from the ActiveModel assigns: the Set ones.
SetCols(am) == {c \in Cols : am[c].tag = "Set"}

\* UpdatedRow assigning every column of the ActiveModel, fetched or Set.
UpdatedRowAllColumns(row, am) == [c \in Cols \cup {"id"} |-> am[c].v]

\* The row after `UPDATE notes SET <SetCols> WHERE id = ..`
UpdatedRow(row, am) ==
    [c \in Cols \cup {"id"} |-> IF c \in SetCols(am) THEN am[c].v ELSE row[c]]

\* UpdateResults saving the ActiveModel as a new row when the row is gone.
UpdateResultsUpsert(am) ==
    LET id == am.id.v IN
    IF ~Stored(id) THEN {[ok |-> TRUE, row |-> [c \in Cols \cup {"id"} |-> am[c].v]]}
    ELSE IF SetCols(am) = {}
         THEN {[ok |-> TRUE, row |-> Row(id)], [ok |-> FALSE, err |-> EmptyUpdateErr]}
    ELSE IF "title" \in SetCols(am) /\ TitleTaken(am.title.v, id)
         THEN {[ok |-> FALSE, err |-> UniqueErr]}
    ELSE {[ok |-> TRUE, row |-> UpdatedRow(Row(id), am)]}

\* ActiveModel::update against the table: Ok(the row as stored afterwards)
\* or Err.  An ActiveModel with no Set column sends no UPDATE; depending on
\* the sea-orm release it re-reads the row or fails on the empty statement.
UpdateResults(am) ==
    LET id == am.id.v IN
    IF ~Stored(id) THEN {[ok |-> FALSE, err |-> NotUpdatedErr]}
    ELSE IF SetCols(am) = {}
         THEN {[ok |-> TRUE, row |-> Row(id)], [ok |-> FALSE, err |-> EmptyUpdateErr]}
    ELSE IF "title" \in SetCols(am) /\ TitleTaken(am.title.v, id)
         THEN {[ok |-> FALSE, err |-> UniqueErr]}
    ELSE {[ok |-> TRUE, row |-> UpdatedRow(Row(id), am)]}

\* InsertResults on a table with no unique index on title.
InsertResultsNoIndex(data) ==
    {[ok |-> TRUE,
      row |-> [id |-> nextId, title |-> data.title, content |-> data.content,
               category |-> data.category, published |-> p]]
     : p \in PublishedDefaults}

\* ActiveModel::insert of create_handler's new_note: id NotSet (generated
\* by the store), title/content/category Set, the rest left to defaults.
InsertResults(data) ==
    IF TitleTaken(data.title, nextId)
    THEN {[ok |-> FALSE, err |-> UniqueErr]}
    ELSE {[ok |-> TRUE,
           row |-> [id |-> nextId, title |-> data.title, content |-> data.content,
                    category |-> data.category, published |-> p]]
          : p \in PublishedDefaults}

\* ------------------------------------------------------------- responses
NoResp == [code |-> 0]

\* The record of the request that completed last.  calls counts its store
\* calls; responded is FALSE when the handler panicked; dbErr tells that
\* its last store call failed below the table (connection lost); opts is a
\* list request's query; data and stale are kept for an update that
\* reached its write (data: its body; stale: the columns it did not assign
\* that were fetched with a value the row no longer had when the write
\* ran).
Done(op, id, calls, resp) ==
    [op |-> op, id |-> id, calls |-> calls, responded |-> TRUE, dbErr |-> FALSE,
     resp |-> resp, opts |-> None, data |-> None, stale |-> {}]

Failed(op, id, calls, resp) == [Done(op, id, calls, resp) EXCEPT !.dbErr = TRUE]

NoRequest == Done("none", 0, 0, NoResp)

Init ==
    /\ store = {}
    /\ nextId = 1
    /\ tasks = EmptyBag
    /\ last = NoRequest
    /\ nreq = 0

\* Every permutation of a finite set, as sequences: the store's return order.
Orders(S) ==
    {s \in [1..Cardinality(S) -> S] : \A i, j \in DOMAIN s : i # j => s[i] # s[j]}

ListBody(notes_list) ==
    IF Len(notes_list) > 0
    THEN [code |-> 200, status |-> "success", results |-> Len(notes_list),
          data |-> notes_list]
    ELSE [code |-> 200, status |-> "success", results |-> 0,
          message |-> "No notes found"]

\* find_all_handler applying limit to the rows it returns.
find_all_handler_limited(opts) ==
    /\ nreq < MaxReqs
    /\ nreq' = nreq + 1
    /\ LET _opts == OptsOrDefault(opts)
           n == IF _opts.limit = None THEN Cardinality(store) ELSE _opts.limit[1]
       IN \E notes_result \in Orders(store) :
             LET notes_list == [i \in {j \in DOMAIN notes_result : j <= n} |->
                                  NoteResponse(notes_result[i].id, notes_result[i])]
             IN last' = [Done("list", 0, 1, ListBody(notes_list)) EXCEPT !.opts = opts]
    /\ UNCHANGED <<store, nextId, tasks>>

find_all_handler(opts) ==
    /\ nreq < MaxReqs
    /\ nreq' = nreq + 1
    /\ LET _opts == OptsOrDefault(opts) IN
       \/ \E notes_result \in Orders(store) :
             LET notes_list == [i \in DOMAIN notes_result |->
                                  NoteResponse(notes_result[i].id, notes_result[i])]
             IN last' = [Done("list", 0, 1, ListBody(notes_list)) EXCEPT !.opts = opts]
       \/ last' = [Failed("list", 0, 1,
                        [code |-> 500, status |-> "fail",
                         message |-> "Something bad happened while fetching all note items"])
                   EXCEPT !.opts = opts]
    /\ UNCHANGED <<store, nextId, tasks>>

\* find_by_id_handler without its Ok(None) arm.
find_by_id_handler_no_none_arm(id) ==
    /\ nreq < MaxReqs
    /\ nreq' = nreq + 1
    /\ \/ /\ FindById(id) # None
          /\ last' = Done("get", id, 1,
                          [code |-> 200, status |-> "success",
                           note |-> NoteResponse(id, FindById(id)[1])])
       \/ /\ FindById(id) = None
          /\ last' = Done("get", id, 1,
                          [code |-> 500, status |-> "fail",
                           message |-> "Something went wrong while fetching the note"])
    /\ UNCHANGED <<store, nextId, tasks>>

find_by_id_handler(id) ==
    /\ nreq < MaxReqs
    /\ nreq' = nreq + 1
    /\ \/ /\ FindById(id) # None
          /\ last' = Done("get", id, 1,
                          [code |-> 200, status |-> "success",
                           note |-> NoteResponse(id, FindById(id)[1])])
       \/ /\ FindById(id) = None
          /\ last' = Done("get", id, 1,
                          [code |-> 404, status |-> "fail",
                           message |-> <<"Note with ID: ", id, " not found">>])
       \/ last' = Failed("get", id, 1,
                       [code |-> 500, status |-> "fail",
                        message |-> "Something went wrong while fetching the note"])
    /\ UNCHANGED <<store, nextId, tasks>>

\* CreateError matching another backend's message.
CreateErrorOtherText(e) ==
    IF Contains(e, "UNIQUE constraint failed")
    THEN [code |-> 409, status |-> "fail",
          message |-> "Note with that title already exists"]
    ELSE [code |-> 500, status |-> "error", message |-> <<"Debug", e>>]

\* The Err(e) arm of create_handler
CreateError(e) ==
    IF Contains(e, DuplicateKeyText)
    THEN [code |-> 409, status |-> "fail",
          message |-> "Note with that title already exists"]
    ELSE [code |-> 500, status |-> "error", message |-> <<"Debug", e>>]

create_handler(data) ==
    /\ nreq < MaxReqs
    /\ nextId <= MaxIds
    /\ nreq' = nreq + 1
    /\ UNCHANGED tasks
    /\ \E r \in InsertResults(data) \cup {[ok |-> FALSE, err |-> ConnErr]} :
          IF r.ok
          THEN /\ store' = store \cup {r.row}
               /\ nextId' = nextId + 1
               /\ last' = Done("create", r.row.id, 1,
                               [code |-> 201, status |-> "success",
                                note |-> NoteResponse(r.row.id, r.row)])
          ELSE /\ UNCHANGED <<store, nextId>>
               /\ last' = IF r.err = ConnErr
                          THEN Failed("create", 0, 1, CreateError(r.err))
                          ELSE Done("create", 0, 1, CreateError(r.err))

\* update_handler up to its second await: the fetch, the unwrap and the
\* patching of the ActiveModel.  An update that found its note joins tasks,
\* the bag of the updates waiting to write, with its body and ActiveModel.
update_fetch(id, data) ==
    /\ nreq < MaxReqs
    /\ BagCardinality(tasks) < MaxTasks
    /\ nreq' = nreq + 1
    /\ \/ /\ FindById(id) # None
          /\ tasks' = tasks (+) SetToBag({[data |-> data,
                                           note |-> Patch(IntoActiveModel(FindById(id)[1]), data)]})
          /\ UNCHANGED last
       \/ /\ FindById(id) = None
          /\ last' = [Done("update", id, 1, NoResp) EXCEPT !.responded = FALSE]
          /\ UNCHANGED tasks
       \/ /\ last' = Failed("update", id, 1,
                          [code |-> 500, status |-> "error",
                           message |-> <<"Error while fetching the note with ID: ", id>>])
          /\ UNCHANGED tasks
    /\ UNCHANGED <<store, nextId>>

\* The columns the ActiveModel holds as Unchanged with a value the row no
\* longer has.
Stale(note) ==
    IF Stored(note.id.v)
    THEN {c \in Cols \ SetCols(note) : note[c].v # Row(note.id.v)[c]}
    ELSE {}

\* update_handler from note.update(&db) to its response.
update_write(task) ==
    /\ BagIn(task, tasks)
    /\ tasks' = tasks (-) SetToBag({task})
    /\ UNCHANGED <<nextId, nreq>>
    /\ LET note == task.note
           id == note.id.v
       IN \E r \in UpdateResults(note) \cup {[ok |-> FALSE, err |-> ConnErr]} :
             IF r.ok
             THEN /\ store' = {n \in store : n.id # id} \cup {r.row}
                  /\ last' = [Done("update", id, 2,
                                   [code |-> 200, status |-> "success",
                                    note |-> NoteResponse(r.row.id, r.row)])
                              EXCEPT !.data = task.data,
                                     !.stale = Stale(note)]
             ELSE /\ UNCHANGED store
                  /\ last' = [Done("update", id, 2,
                                   [code |-> 500, status |-> "fail",
                                    message |-> "Failed to update the note"])
                              EXCEPT !.data = task.data,
                                     !.stale = Stale(note),
                                     !.dbErr = (r.err = ConnErr)]

\* The runtime resumes one of the updates waiting at note.update(&db).await.
update_resume == \E task \in BagToSet(tasks) : update_write(task)

\* Notes::delete_by_id(id).exec(&db): the rows it removes
RowsAffected(id) == {n \in store : n.id = id}

\* delete_handler without the rows_affected check.
delete_handler_unchecked(id) ==
    /\ nreq < MaxReqs
    /\ nreq' = nreq + 1
    /\ store' = store \ RowsAffected(id)
    /\ last' = Done("delete", id, 1, [code |-> 204])
    /\ UNCHANGED <<nextId, tasks>>

\* delete_handler looking the note up before it deletes it.
delete_handler_prefetch(id) ==
    /\ nreq < MaxReqs
    /\ nreq' = nreq + 1
    /\ \/ /\ FindById(id) = None
          /\ UNCHANGED store
          /\ last' = Done("delete", id, 1,
                          [code |-> 404, status |-> "fail",
                           message |-> <<"Note with ID: ", id, " not found">>])
       \/ /\ FindById(id) # None
          /\ store' = store \ RowsAffected(id)
          /\ last' = Done("delete", id, 2, [code |-> 204])
    /\ UNCHANGED <<nextId, tasks>>

delete_handler(id) ==
    /\ nreq < MaxReqs
    /\ nreq' = nreq + 1
    /\ \/ /\ Cardinality(RowsAffected(id)) = 0
          /\ UNCHANGED store
          /\ last' = Done("delete", id, 1,
                          [code |-> 404, status |-> "fail",
                           message |-> <<"Note with ID: ", id, " not found">>])
       \/ /\ Cardinality(RowsAffected(id)) # 0
          /\ store' = store \ RowsAffected(id)
          /\ last' = Done("delete", id, 1, [code |-> 204])
       \/ /\ UNCHANGED store
          /\ last' = Failed("delete", id, 1,
                          [code |-> 500, status |-> "error",
                           message |-> <<"Failed to delete note with ID: ", id>>,
                           details |-> ConnErr])
    /\ UNCHANGED <<nextId, tasks>>

Next ==
    \/ \E opts \in Option(FilterOptions) : find_all_handler(opts)
    \/ \E id \in Ids : find_by_id_handler(id)
    \/ \E data \in CreateNoteSchema : create_handler(data)
    \/ \E id \in Ids, data \in UpdateNoteSchema : update_fetch(id, data)
    \/ update_resume
    \/ \E id \in Ids : delete_handler(id)

Spec == Init /\ [][Next]_vars

\* ------------------------------------------------------------- claims
\* The row stored under id after the step.
RowAfter(id) == CHOOSE n \in store' : n.id = id
\* The columns an update body names, and the value it gives to one.
Present(data) == {c \in Cols : data[c] # None}
BodyValue(data, c) == IF c \in {"category", "published"} THEN data[c] ELSE data[c][1]

ConflictResponse ==
    [code |-> 409, status |-> "fail", message |-> "Note with that title already exists"]
UpdateFailedResponse ==
    [code |-> 500, status |-> "fail", message |-> "Failed to update the note"]

UniqueTitles == \A a, b \in store : a.title = b.title => a = b

\* A create, or the write of an update, that would give a note a title
\* another note holds leaves the table as it is.
DuplicateRejected ==
    /\ \A data \in CreateNoteSchema :
          (TitleTaken(data.title, nextId) /\ create_handler(data)) => store' = store
    /\ \A task \in BagToSet(tasks) :
          ( /\ task.data.title # None
            /\ TitleTaken(task.data.title[1], task.note.id.v)
            /\ update_write(task) ) => store' = store

\* C1: no two stored notes ever have the same title, and a create or an
\* update that would give a note a title held by another note leaves the
\* stored notes unchanged.
C1_UniqueTitle == [][UniqueTitles' /\ DuplicateRejected]_vars

\* An update asked for a title another note holds, was refused by the
\* store, and both notes are still stored.
C1_Witness ==
    /\ last.op = "update" /\ last.calls = 2 /\ ~last.dbErr
    /\ last.resp.code = 500
    /\ last.data.title # None
    /\ Stored(last.id)
    /\ Row(last.id).title # last.data.title[1]
    /\ TitleTaken(last.data.title[1], last.id)

\* C2: a create whose title a stored note already holds is answered, when
\* the store call itself does not fail, with 409 / "fail" / the fixed
\* message, and the stored notes after it are those before it.
C2_CreateConflict ==
    [][\A data \in CreateNoteSchema :
          ((\E n \in store : n.title = data.title) /\ create_handler(data))
             => /\ store' = store
                /\ nextId' = nextId
                /\ ~last'.dbErr => last'.resp = ConflictResponse]_vars

C2_Witness ==
    /\ last.op = "create" /\ ~last.dbErr
    /\ last.resp.code = 409
    /\ store # {}

\* C3: a successful update leaves every column absent from its body, and
\* the id, as the row held them when the write ran, gives the columns
\* present in the body the body's values, and leaves every other row alone.
C3_UpdateFrame ==
    [][\A task \in BagToSet(tasks) :
          (update_write(task) /\ last'.resp.code = 200)
             => LET id == task.note.id.v IN
                /\ Stored(id)
                /\ \E n \in store' : n.id = id
                /\ RowAfter(id).id = Row(id).id
                /\ \A c \in Cols \ Present(task.data) : RowAfter(id)[c] = Row(id)[c]
                /\ \A c \in Present(task.data) : RowAfter(id)[c] = BodyValue(task.data, c)
                /\ store' \ {RowAfter(id)} = store \ {Row(id)}
                /\ last'.resp.note = RowAfter(id)]_vars

\* An update whose body held only content succeeded on a row that has a
\* category and a published flag.
C3_Witness ==
    /\ last.op = "update" /\ last.resp.code = 200
    /\ Present(last.data) = {"content"}
    /\ Row(last.id).content = last.data.content[1]
    /\ Row(last.id).category # None
    /\ Row(last.id).published # None

\* C4: every request ends with an HTTP response.
C4_AlwaysResponds == last.responded

\* C5: unless the store call fails, a delete answers 204 and removes the
\* note when the note is stored and answers 404 and changes nothing when
\* it is not; a deleted id is never stored again, so a second delete of it
\* answers 404.
C5_Delete ==
    [][/\ \A id \in Ids :
            (delete_handler(id) /\ ~last'.dbErr)
               => IF Stored(id)
                  THEN last'.resp.code = 204 /\ store' = store \ {Row(id)}
                  ELSE last'.resp.code = 404 /\ store' = store
       /\ \A id \in Ids : (id < nextId /\ ~Stored(id)) => ~(\E n \in store' : n.id = id)
      ]_vars

\* The second delete: a delete answered 404 for an id the store had given
\* out, which only an earlier delete can have removed.
C5_Witness ==
    /\ last.op = "delete" /\ last.resp.code = 404
    /\ last.id < nextId

\* C6: unless the store call fails, a list answers success with results =
\* the number of stored notes and data holding each stored note once,
\* whatever page and limit are; with no delete so far that number is the
\* number of successful creates; with no note stored it answers results 0
\* and a message, and no data field.
C6_List ==
    (last.op = "list" /\ ~last.dbErr)
       => /\ last.resp.code = 200
          /\ last.resp.status = "success"
          /\ last.resp.results = Cardinality(store)
          /\ IF store = {}
             THEN DOMAIN last.resp = {"code", "status", "results", "message"}
             ELSE /\ DOMAIN last.resp = {"code", "status", "results", "data"}
                  /\ Len(last.resp.data) = Cardinality(store)
                  /\ {last.resp.data[i] : i \in DOMAIN last.resp.data}
                        = {NoteResponse(n.id, n) : n \in store}
          /\ (\A i \in 1..(nextId - 1) : Stored(i)) => last.resp.results = nextId - 1

\* Two creates, then a list asking for page 1 with limit 1.
C6_Witness ==
    /\ last.op = "list" /\ ~last.dbErr
    /\ last.opts = Some([page |-> Some(1), limit |-> Some(1)])
    /\ nextId = 3
    /\ last.resp.results = 2

GetReturnsStored ==
    (last.op = "get" /\ ~last.dbErr)
       => IF Stored(last.id)
          THEN /\ last.resp.code = 200
               /\ last.resp.note = Row(last.id)
          ELSE last.resp.code = 404

GetAfterCreate ==
    \A id \in Ids :
       find_by_id_handler(id)
          => /\ store' = store
             /\ ( /\ last.op = "create" /\ last.resp.code = 201
                  /\ last.id = id /\ ~last'.dbErr )
                   => /\ last'.resp.code = 200
                      /\ last'.resp.note = last.resp.note

\* C7: unless the store call fails, a get answers 404 for an id with no
\* stored note and 200 with the stored note otherwise; a get that follows
\* the create of its id answers with the note as the create response held
\* it; a get never changes the store.
C7_Get == [][GetReturnsStored' /\ GetAfterCreate]_vars

\* A create and then a get of the id it returned.
C7_Witness ==
    /\ last.op = "get" /\ last.resp.code = 200
    /\ nreq = 2

\* C8 as stated: every request makes exactly one store call, and no other
\* request's store call takes effect between a handler's store accesses.
C8_OneStoreCall == last.op # "none" => (last.calls = 1 /\ last.stale = {})

\* C8: list, get, create and delete make exactly one store call per
\* request; update makes two, a fetch and then a write, whenever the fetch
\* finds the note, and one when the fetch fails or finds nothing.
C8_StoreCalls ==
    /\ last.op \in {"list", "get", "create", "delete"}
          => (last.calls = 1 /\ last.stale = {})
    /\ last.op = "update"
          => /\ last.calls \in {1, 2}
             /\ last.calls = 2 <=> (last.responded /\ last.resp.status # "error")

\* An update made its two store calls and another request's write took
\* effect on its row between them.
C8_Witness ==
    /\ last.op = "update" /\ last.calls = 2
    /\ last.stale # {}

\* C9: when an update of a note succeeds right after another successful
\* update of the same note whose body named other columns, however their
\* fetches and writes interleaved, the row holds the values of both bodies.
C9_DisjointUpdates ==
    [][\A task \in BagToSet(tasks) :
          ( /\ update_write(task) /\ last'.resp.code = 200
            /\ last.op = "update" /\ last.resp.code = 200
            /\ last.id = task.note.id.v
            /\ Present(last.data) \cap Present(task.data) = {} )
             => LET row == RowAfter(task.note.id.v) IN
                /\ \A c \in Present(last.data) : row[c] = BodyValue(last.data, c)
                /\ \A c \in Present(task.data) : row[c] = BodyValue(task.data, c)]_vars

\* An update whose body held only content wrote after another update had
\* changed the title it fetched; the row has the other update's title and
\* this update's content.
C9_Witness ==
    /\ last.op = "update" /\ last.resp.code = 200
    /\ Present(last.data) = {"content"}
    /\ last.stale = {"title"}
    /\ Row(last.id).content = last.data.content[1]

\* C10: the write of an update never adds a row; when the note is gone by
\* the time of the write, the table stays as it is and the update answers
\* 500 / "Failed to update the note".
C10_NoResurrection ==
    [][\A task \in BagToSet(tasks) :
          update_write(task)
             => /\ Cardinality(store') <= Cardinality(store)
                /\ {n.id : n \in store'} \subseteq {n.id : n \in store}
                /\ ~Stored(task.note.id.v)
                      => (store' = store /\ last'.resp = UpdateFailedResponse)]_vars

\* An update fetched its note, a delete removed it, and the write then
\* failed: the note is still absent.
C10_Witness ==
    /\ last.op = "update" /\ last.calls = 2 /\ ~last.dbErr
    /\ last.resp.code = 500
    /\ last.id < nextId
    /\ ~Stored(last.id)

====
